---------------------------- MODULE Spec2Model ----------------------------
(***************************************************************************)
(* A model of schema-generate's output stage (output.go).                  *)
(*                                                                         *)
(* Two layers are modelled.                                                *)
(*  - The generator: Output and the emitters it calls.  Emitted Go text is *)
(*    modelled as a sequence of statement records, one per template the    *)
(*    emitter prints, in the order it prints them.                         *)
(*  - The emitted routines: MarshalJSON, UnmarshalJSON and ToMap are       *)
(*    executed by interpreting the statement sequences the emitters        *)
(*    produced, with the meaning the Go templates have.                    *)
(*                                                                         *)
(* Type descriptors and package names are sequences of lexical tokens      *)
(* ("*Obj" is <<"*", "Obj">>), so that prefix tests are computed.          *)
(***************************************************************************)
EXTENDS Integers, Sequences, FiniteSets, TLC

VARIABLES
    g,          \* the Generator: [Structs, Aliases], read-only during a run
    pc,         \* position of the running routine
    out,        \* Output: the stream w, a sequence of tokens
    codeBuf,    \* Output: the buffered routines
    imports,    \* Output: the facility set the emitters filled
    prev,       \* the stream of the previous Output run on the same model
    runs,       \* number of completed Output runs
    s,          \* the record whose emitted routines are executed
    strct,      \* MarshalJSON's receiver
    mi,         \* MarshalJSON: index of the next statement
    lines,      \* MarshalJSON: the fragment list
    mres,       \* MarshalJSON: its result
    target,     \* UnmarshalJSON's receiver
    input,      \* UnmarshalJSON: the bytes b
    jsonMap,    \* UnmarshalJSON: the generic key -> raw value mapping
    todo,       \* UnmarshalJSON: keys the range loop has not visited yet
    cur,        \* UnmarshalJSON: the loop variable k of the last iteration
    received,   \* UnmarshalJSON: the "<name>Received" flags
    ures,       \* UnmarshalJSON: its result
    view        \* ToMap's result

vars == <<g, pc, out, codeBuf, imports, prev, runs, s, strct, mi, lines, mres,
          target, input, jsonMap, todo, cur, received, ures, view>>

genVars == <<out, codeBuf, imports, prev, runs>>
marVars == <<strct, mi, lines, mres>>
unmVars == <<target, input, jsonMap, todo, cur, received, ures, view>>

---------------------------------------------------------------------------
(* Bounds of the model *)

\* integers held by int fields and objects range over 0..MaxInt
MaxInt == 1
\* Output is run at most MaxRuns times on one model
MaxRuns == 2
\* at most MaxExtra undeclared keys in an input document
MaxExtra == 1

None == "none"

---------------------------------------------------------------------------
(* Strings *)

\* Names are single letters; sort.Strings orders them as bytes.
Alphabet == <<"A", "B", "C", "R", "S", "T", "X", "Y", "Z">>

Ord(name) == CHOOSE i \in 1..Len(Alphabet) : Alphabet[i] = name

StringLess(a, b) == Ord(a) < Ord(b)

HasPrefix(str, prefix) ==
    /\ Len(str) >= Len(prefix)
    /\ SubSeq(str, 1, Len(prefix)) = prefix

RECURSIVE SetToSeq(_)
\* the keys of a mapping in the order a range loop happens to visit them
SetToSeq(S) ==
    IF S = {} THEN <<>>
    ELSE LET x == CHOOSE y \in S : TRUE IN <<x>> \o SetToSeq(S \ {x})

Perms(S) ==
    {p \in [1..Cardinality(S) -> S] : \A i, j \in DOMAIN p : p[i] = p[j] => i = j}

Range(f) == {f[x] : x \in DOMAIN f}

RECURSIVE Flatten(_)
Flatten(ss) == IF ss = <<>> THEN <<>> ELSE Head(ss) \o Flatten(Tail(ss))

\* type descriptors
TString == <<"string">>
TInt    == <<"int">>
TFloat  == <<"float64">>
TObj    == <<"Obj">>
TPtrObj == <<"*", "Obj">>
NoType  == <<>>
TFalse  == <<"false">>

---------------------------------------------------------------------------
(* Deterministic ordering *)

getOrderedFieldNames(m) == SortSeq(SetToSeq(DOMAIN m), StringLess)

\* the record names left in descending order
getOrderedStructNamesDescending(m) ==
    SortSeq(SetToSeq(DOMAIN m), LAMBDA a, b : StringLess(b, a))

getOrderedStructNames(m) == SortSeq(SetToSeq(DOMAIN m), StringLess)

---------------------------------------------------------------------------
(* Zero-value resolver *)

getZeroValueCheck(schemaType) ==
    IF HasPrefix(schemaType, <<"*">>) THEN <<"nil", TRUE>>
    ELSE IF HasPrefix(schemaType, <<"[]">>) THEN <<"nil", TRUE>>
    ELSE CASE schemaType = <<"array">>   -> <<"nil", TRUE>>
           [] schemaType = <<"bool">>    -> <<"false", TRUE>>
           [] schemaType = <<"int">>     -> <<"0", TRUE>>
           [] schemaType = <<"float64">> -> <<"0", TRUE>>
           [] schemaType = <<"nil">>     -> <<"nil", TRUE>>
           [] schemaType = <<"string">>  -> <<"\"\"", TRUE>>
           [] OTHER                      -> <<"", FALSE>>

---------------------------------------------------------------------------
(* Emitted text *)

\* One emitted statement.  op names the template, field the Go field it
\* touches, key the external name printed into it.
Stmt(op, field, key, arg) == [op |-> op, field |-> field, key |-> key, arg |-> arg]

\* One piece of the output stream.
Tok(t, name, ty, body) == [t |-> t, name |-> name, ty |-> ty, body |-> body]

\* what an emitter hands back: the text it wrote and the facilities it set
Emitted(code, imps) == [code |-> code, imports |-> imps]

---------------------------------------------------------------------------
(* Marshal emitter *)

\* the guard left out of a field that has OmitEmpty set
emitMarshalGuardUnlessOmitEmpty(f) ==
    IF ~f.Required \/ f.OmitEmpty THEN <<>>
    ELSE IF HasPrefix(f.MarshalType, <<"*">>)
         THEN <<Stmt("requiredGuard", f.Name, f.MarshalName, "")>>
         ELSE <<Stmt("remark", f.Name, "", "")>>

emitMarshalGuard(f) ==
    IF ~f.Required THEN <<>>
    ELSE IF HasPrefix(f.MarshalType, <<"*">>)
         THEN <<Stmt("requiredGuard", f.Name, f.MarshalName, "")>>
         ELSE <<Stmt("remark", f.Name, "", "")>>

emitMarshalCond(f) ==
    IF ~f.OmitEmpty THEN "always"
    ELSE LET z == getZeroValueCheck(f.MarshalType)
         IN IF z[2] THEN z[1] ELSE "reflectIsZero"

\* the text emitMarshalCode prints for one field
emitMarshalField(f) ==
    IF f.MarshalName = "-" THEN Emitted(<<>>, {})
    ELSE Emitted(emitMarshalGuard(f)
                   \o <<Stmt("marshal", f.Name, f.MarshalName, emitMarshalCond(f))>>,
                 (IF f.Required /\ HasPrefix(f.MarshalType, <<"*">>)
                  THEN {"errors"} ELSE {}) \cup {"fmt"})

emitMarshalCode(st) ==
    LET names == getOrderedFieldNames(st.Fields)
        per   == [i \in 1..Len(names) |-> emitMarshalField(st.Fields[names[i]])]
        addl  == st.AdditionalType # NoType /\ st.AdditionalType # TFalse
    IN Emitted(
         Flatten([i \in 1..Len(names) |-> per[i].code])
           \o (IF addl THEN <<Stmt("marshalAdditional", "", "", "")>> ELSE <<>>)
           \o <<Stmt("returnJoin", "", "", "")>>,
         UNION {per[i].imports : i \in 1..Len(names)}
           \cup (IF addl THEN {"fmt"} ELSE {})
           \cup {"strings"})

---------------------------------------------------------------------------
(* Unmarshal emitter *)

emitUnmarshalFieldCode(f) ==
    IF f.MarshalType = f.UnmarshalType
    THEN Emitted(<<Stmt("case", f.Name, f.UnmarshalName, "direct")>>, {})
    ELSE CASE f.UnmarshalType = TString ->
                IF f.MarshalType = TInt
                THEN Emitted(<<Stmt("case", f.Name, f.UnmarshalName, "parseInt")>>, {})
                ELSE Emitted(<<>>, {})
           [] f.UnmarshalType = TInt ->
                IF f.MarshalType = TString
                THEN Emitted(<<Stmt("case", f.Name, f.UnmarshalName, "itoa")>>, {"strconv"})
                ELSE Emitted(<<>>, {})
           [] OTHER -> Emitted(<<>>, {})

\* the switch items emitUnmarshalCode prints for one field
emitUnmarshalSwitchItem(f) ==
    IF f.UnmarshalName = "-" THEN Emitted(<<>>, {})
    ELSE LET c == emitUnmarshalFieldCode(f)
         IN Emitted(c.code \o (IF f.Required
                               THEN <<Stmt("setReceived", "", f.UnmarshalName, "")>>
                               ELSE <<>>),
                    c.imports)

\* every record with an AdditionalType given the skipping default
emitUnmarshalDefaultSkipping(st) ==
    IF st.AdditionalType = NoType THEN Emitted(<<>>, {})
    ELSE Emitted(<<Stmt("defaultContinue", "", "", "")>>, {"fmt"})

emitUnmarshalDefault(st) ==
    IF st.AdditionalType = NoType THEN Emitted(<<>>, {})
    ELSE IF st.AdditionalType = TFalse
         THEN Emitted(<<Stmt("defaultContinue", "", "", "")>>, {"fmt"})
         ELSE Emitted(<<Stmt("defaultAdditional", "", "", "")>>, {})

emitUnmarshalCode(st) ==
    LET names == getOrderedFieldNames(st.Fields)
        fld(i) == st.Fields[names[i]]
        req   == SelectSeq([i \in 1..Len(names) |-> fld(i)], LAMBDA f : f.Required)
        items == [i \in 1..Len(names) |-> emitUnmarshalSwitchItem(fld(i))]
        dflt  == emitUnmarshalDefault(st)
    IN Emitted(
         [i \in 1..Len(req) |-> Stmt("declReceived", "", req[i].UnmarshalName, "")]
           \o <<Stmt("parse", "", "", "")>>
           \o Flatten([i \in 1..Len(names) |-> items[i].code])
           \o dflt.code
           \o <<Stmt("endLoop", "", "", "")>>
           \o [i \in 1..Len(req) |-> Stmt("checkReceived", "", req[i].UnmarshalName, "")]
           \o <<Stmt("returnNil", "", "", "")>>,
         {"encoding/json"}
           \cup UNION {items[i].imports : i \in 1..Len(names)}
           \cup dflt.imports
           \cup (IF Len(req) > 0 THEN {"errors"} ELSE {}))

---------------------------------------------------------------------------
(* Map-view emitter *)

emitToMapCode(st) ==
    LET names == getOrderedFieldNames(st.Fields)
    IN [i \in 1..Len(names) |->
          Stmt("put", st.Fields[names[i]].Name, st.Fields[names[i]].MarshalName, "")]


---------------------------------------------------------------------------
(* Orchestrator *)

cleanPackageName(pkg) == SelectSeq(pkg, LAMBDA c : c # "." /\ c # "-")

\* the import block: one line per facility, in the order the range loop
\* over the imports map visits them (perm)
WriteImports(perm) ==
    IF Len(perm) > 0
    THEN <<Tok("importOpen", "", <<>>, <<>>)>>
           \o [i \in 1..Len(perm) |-> Tok("import", perm[i], <<>>, <<>>)]
           \o <<Tok("importClose", "", <<>>, <<>>)>>
    ELSE <<>>

WriteAliases(aliases) ==
    LET names == getOrderedFieldNames(aliases)
    IN [i \in 1..Len(names) |->
          Tok("alias", aliases[names[i]].Name, aliases[names[i]].UnmarshalType, <<>>)]

WriteFields(fields) ==
    LET names == getOrderedFieldNames(fields)
        one(f) == (IF f.Description # <<>>
                   THEN <<Tok("fieldDoc", "", f.Description, <<>>)>> ELSE <<>>)
                    \o <<Tok("field", f.Name, f.MarshalType, <<>>)>>
    IN Flatten([i \in 1..Len(names) |-> one(fields[names[i]])])

WriteStructs(structs) ==
    LET names == getOrderedStructNames(structs)
        one(st) == <<Tok("structDoc", st.Name, st.Description, <<>>),
                     Tok("structOpen", st.Name, <<>>, <<>>)>>
                    \o WriteFields(st.Fields)
                    \o <<Tok("structClose", st.Name, <<>>, <<>>)>>
    IN Flatten([i \in 1..Len(names) |-> one(structs[names[i]])])

\* the first loop of Output: the routines of the code-generating records go
\* to codeBuf, the facilities they set to imports
EmitRoutines(structs) ==
    LET names == getOrderedStructNames(structs)
        one(st) ==
            IF st.GenerateCode
            THEN LET m == emitMarshalCode(st)
                     u == emitUnmarshalCode(st)
                 IN Emitted(<<Tok("MarshalJSON", st.Name, <<>>, m.code),
                              Tok("UnmarshalJSON", st.Name, <<>>, u.code),
                              Tok("ToMap", st.Name, <<>>, emitToMapCode(st))>>,
                            m.imports \cup u.imports)
            ELSE Emitted(<<>>, {})
        per == [i \in 1..Len(names) |-> one(structs[names[i]])]
    IN Emitted(Flatten([i \in 1..Len(names) |-> per[i].code]),
               UNION {per[i].imports : i \in 1..Len(names)})

\* the stream Output writes, given the order perm in which the range loop
\* visits the imports map
Output(gen, pkg, perm) ==
    <<Tok("marker", "", <<>>, <<>>), Tok("package", "", cleanPackageName(pkg), <<>>)>>
      \o WriteImports(perm)
      \o WriteAliases(gen.Aliases)
      \o WriteStructs(gen.Structs)
      \o EmitRoutines(gen.Structs).code

---------------------------------------------------------------------------
(* The schema models generation is run on *)

\* external names of a field
Ext == [A |-> "a", B |-> "b", C |-> "c"]
ExtIn == [A |-> "a_in", B |-> "b_in", C |-> "c_in"]

Field(name, descr, mName, uName, mType, uType, req, omit) ==
    [Name |-> name, Description |-> descr, MarshalName |-> mName,
     UnmarshalName |-> uName, MarshalType |-> mType, UnmarshalType |-> uType,
     Required |-> req, OmitEmpty |-> omit]

\* same external name and same type in both directions
Plain(n, ty, req, omit) == Field(n, <<>>, Ext[n], Ext[n], ty, ty, req, omit)

\* the field descriptors a record's field n is drawn from
FieldMenu(n) ==
    {Plain(n, TString, FALSE, FALSE),
     Plain(n, TString, FALSE, TRUE),
     Plain(n, TInt, FALSE, TRUE),
     Plain(n, TInt, TRUE, FALSE),
     Plain(n, TFloat, FALSE, FALSE),
     Plain(n, TPtrObj, TRUE, FALSE),
     Plain(n, TPtrObj, TRUE, TRUE),
     Plain(n, TObj, FALSE, TRUE),
     Field(n, <<"doc">>, Ext[n], Ext[n], TString, TInt, FALSE, FALSE),
     Field(n, <<>>, Ext[n], Ext[n], TInt, TString, FALSE, FALSE),
     Field(n, <<>>, Ext[n], Ext[n], TObj, TString, TRUE, FALSE),
     Field(n, <<>>, "-", Ext[n], TString, TString, FALSE, FALSE),
     Field(n, <<>>, Ext[n], "-", TString, TString, TRUE, FALSE),
     Field(n, <<>>, Ext[n], ExtIn[n], TString, TString, FALSE, FALSE)}

FieldKeys == {"A", "B"}

\* mappings field-name -> Field; the key is the field's Name
FieldMaps ==
    UNION {{fm \in [K -> UNION {FieldMenu(n) : n \in K}] :
              \A n \in K : fm[n].Name = n} : K \in SUBSET FieldKeys}

AdditionalTypes == {NoType, TFalse, TInt}

Struct(name, fields, addl, gen) ==
    [Name |-> name, Description |-> <<"doc">>, Fields |-> fields,
     AdditionalType |-> addl, GenerateCode |-> gen]

\* the records whose emitted routines are executed
RunStructs == {Struct("S", fm, at, TRUE) : fm \in FieldMaps, at \in AdditionalTypes}

\* a second, simple record; its name sorts before "S"
SimpleFields == {fm \in FieldMaps : \A n \in DOMAIN fm : fm[n] = Plain(n, TString, FALSE, FALSE)}

Alias(n, ty) == Field(n, <<>>, "", "", ty, ty, FALSE, FALSE)

AliasMaps ==
    {<<>>,
     [n \in {"X"} |-> Alias(n, TInt)],
     [n \in {"X", "Y"} |-> Alias(n, TString)]}

\* one record of every shape, alone
RichModels ==
    {[Structs |-> [n \in {"S"} |-> Struct("S", fm, at, gc)], Aliases |-> <<>>] :
        fm \in FieldMaps, at \in AdditionalTypes, gc \in BOOLEAN}

\* two simple records and aliases
ShapeModels ==
    {[Structs |-> [n \in {"R", "S"} |->
                     IF n = "R" THEN Struct("R", fr, NoType, gr)
                     ELSE Struct("S", fs, NoType, gs)],
      Aliases |-> al] :
        fr \in SimpleFields, fs \in SimpleFields, gr \in BOOLEAN, gs \in BOOLEAN,
        al \in AliasMaps}

GenModels == RichModels \cup ShapeModels

Pkg == <<"my", "-", "pkg", ".", "v", "1">>

NoGen == [Structs |-> <<>>, Aliases |-> <<>>]
NoStruct == Struct("", <<>>, NoType, FALSE)
NoInstance == [fields |-> <<>>, AdditionalProperties |-> <<>>, apNil |-> TRUE]
NoInput == [object |-> FALSE, pairs |-> <<>>]
NoResult == [kind |-> None, doc |-> <<>>, err |-> <<>>]

---------------------------------------------------------------------------
(* Running Output *)

IdleRun ==
    /\ s = NoStruct /\ strct = NoInstance /\ mi = 0 /\ lines = <<>>
    /\ mres = NoResult /\ target = NoInstance /\ input = NoInput /\ jsonMap = <<>>
    /\ todo = {} /\ cur = "" /\ received = <<>> /\ ures = NoResult /\ view = <<>>

InitGen ==
    /\ g \in GenModels
    /\ pc = "start"
    /\ out = <<>> /\ codeBuf = <<>> /\ imports = {} /\ prev = <<>> /\ runs = 0
    /\ IdleRun

InitRerun ==
    /\ g \in ShapeModels
    /\ pc = "start"
    /\ out = <<>> /\ codeBuf = <<>> /\ imports = {} /\ prev = <<>> /\ runs = 0
    /\ IdleRun

\* one call of Output(w, g, pkg)
OutputRun ==
    /\ pc = "start"
    /\ LET e == EmitRoutines(g.Structs)
       IN /\ codeBuf' = e.code
          /\ imports' = e.imports
          /\ \E perm \in Perms(e.imports) : out' = Output(g, Pkg, perm)
    /\ runs' = runs + 1
    /\ pc' = "written"
    /\ UNCHANGED <<g, prev, s>>
    /\ UNCHANGED marVars /\ UNCHANGED unmVars

\* the caller runs Output again on the unchanged model, with a fresh stream
Rerun ==
    /\ pc = "written"
    /\ runs < MaxRuns
    /\ prev' = out
    /\ out' = <<>> /\ codeBuf' = <<>> /\ imports' = {}
    /\ pc' = "start"
    /\ UNCHANGED <<g, runs, s>>
    /\ UNCHANGED marVars /\ UNCHANGED unmVars

NextGen == OutputRun

SpecGen == InitGen /\ [][NextGen]_vars

NextRerun == OutputRun \/ Rerun

SpecRerun == InitRerun /\ [][NextRerun]_vars


---------------------------------------------------------------------------
(* Go values and JSON values *)

\* A Go value: k is its kind, n its number, str its text.
GoString(str) == [k |-> "string", n |-> 0, str |-> str]
GoInt(n)      == [k |-> "int", n |-> n, str |-> ""]
GoFloat(n)    == [k |-> "float64", n |-> n, str |-> ""]
GoNaN         == [k |-> "float64", n |-> 0, str |-> "NaN"]
GoNil         == [k |-> "nil", n |-> 0, str |-> ""]
GoPtr(n)      == [k |-> "ptr", n |-> n, str |-> ""]
GoObj(n)      == [k |-> "obj", n |-> n, str |-> ""]

\* A JSON value, as raw text of a document.
JNull      == [k |-> "jnull", n |-> 0, str |-> ""]
JStr(str)  == [k |-> "jstr", n |-> 0, str |-> str]
JNum(n)    == [k |-> "jnum", n |-> n, str |-> ""]
JObj(n)    == [k |-> "jobj", n |-> n, str |-> ""]

Digits == <<"0", "1", "2", "3", "4", "5", "6", "7", "8", "9">>

\* strconv.Itoa on 0..9
Itoa(n) == Digits[n + 1]

Ints == 0..MaxInt

\* the values a Go variable of type ty holds
ValuesOf(ty) ==
    CASE ty = TString -> {GoString("")} \cup {GoString(Itoa(n)) : n \in 1..MaxInt}
      [] ty = TInt    -> {GoInt(n) : n \in Ints}
      [] ty = TFloat  -> {GoFloat(0), GoNaN}
      [] ty = TPtrObj -> {GoNil} \cup {GoPtr(n) : n \in Ints}
      [] ty = TObj    -> {GoObj(n) : n \in Ints}

\* the zero value of a Go type
ZeroOf(ty) ==
    IF HasPrefix(ty, <<"*">>) THEN GoNil
    ELSE CASE ty = TString -> GoString("")
           [] ty = TInt    -> GoInt(0)
           [] ty = TFloat  -> GoFloat(0)
           [] ty = TObj    -> GoObj(0)

\* the value a literal of the emitted text denotes where a ty is expected
LiteralValue(lit, ty) ==
    CASE lit = "nil"    -> GoNil
      [] lit = "0"      -> IF ty = TFloat THEN GoFloat(0) ELSE GoInt(0)
      [] lit = "\"\""   -> GoString("")

\* json.Marshal(v): [ok, j]
JsonMarshal(v) ==
    CASE v.k = "string"  -> [ok |-> TRUE, j |-> JStr(v.str)]
      [] v.k = "int"     -> [ok |-> TRUE, j |-> JNum(v.n)]
      [] v.k = "float64" -> IF v.str = "NaN" THEN [ok |-> FALSE, j |-> JNull]
                            ELSE [ok |-> TRUE, j |-> JNum(v.n)]
      [] v.k = "nil"     -> [ok |-> TRUE, j |-> JNull]
      [] v.k = "ptr"     -> [ok |-> TRUE, j |-> JObj(v.n)]
      [] v.k = "obj"     -> [ok |-> TRUE, j |-> JObj(v.n)]

\* json.Unmarshal(j, &x) for x of type ty holding old: [ok, v]
JsonUnmarshal(j, ty, old) ==
    IF j.k = "jnull"
    THEN [ok |-> TRUE, v |-> IF HasPrefix(ty, <<"*">>) THEN GoNil ELSE old]
    ELSE CASE ty = TString /\ j.k = "jstr" -> [ok |-> TRUE, v |-> GoString(j.str)]
           [] ty = TInt /\ j.k = "jnum"    -> [ok |-> TRUE, v |-> GoInt(j.n)]
           [] ty = TFloat /\ j.k = "jnum"  -> [ok |-> TRUE, v |-> GoFloat(j.n)]
           [] ty = TPtrObj /\ j.k = "jobj" -> [ok |-> TRUE, v |-> GoPtr(j.n)]
           [] ty = TObj /\ j.k = "jobj"    -> [ok |-> TRUE, v |-> GoObj(j.n)]
           [] OTHER                        -> [ok |-> FALSE, v |-> old]

\* results of the emitted routines
Doc(ls)    == [kind |-> "doc", doc |-> ls, err |-> <<>>]
Failed(e)  == [kind |-> "err", doc |-> <<>>, err |-> e]
Succeeded  == [kind |-> "ok", doc |-> <<>>, err |-> <<>>]
NoBuild    == [kind |-> "build", doc |-> <<>>, err |-> <<>>]

\* errors.New texts of the templates
RequiredField(name) == <<name, " is a required field">>
NotPresent(name)    == <<"\"", name, "\" is required but was not present">>
JsonError           == <<"json">>

\* the declared Go type of a field of the record (the struct declaration)
DeclaredType(st, field) == st.Fields[field].MarshalType

---------------------------------------------------------------------------
(* The emitted MarshalJSON *)

MarshalCode == emitMarshalCode(s).code

\* the condition the omit-empty template wraps the field's fragment in
MarshalCondHolds(cond, v, ty) ==
    CASE cond = "always"        -> TRUE
      [] cond = "reflectIsZero" -> v = ZeroOf(ty)
      [] OTHER                  -> v # LiteralValue(cond, ty)

MarshalAt(op) ==
    /\ pc = "marshal"
    /\ mi <= Len(MarshalCode)
    /\ MarshalCode[mi].op = op

MarshalFrame == UNCHANGED <<g, s, strct>> /\ UNCHANGED genVars /\ UNCHANGED unmVars

\* if strct.F == nil { return nil, errors.New("<name> is a required field") }
MarshalRequiredGuard ==
    /\ MarshalAt("requiredGuard")
    /\ LET st == MarshalCode[mi]
       IN IF strct.fields[st.field] = GoNil
          THEN /\ mres' = Failed(RequiredField(st.key))
               /\ pc' = "marshalled"
               /\ UNCHANGED <<mi, lines>>
          ELSE /\ mi' = mi + 1
               /\ UNCHANGED <<pc, lines, mres>>
    /\ MarshalFrame

\* a comment line of the routine
MarshalRemark ==
    /\ MarshalAt("remark")
    /\ mi' = mi + 1
    /\ UNCHANGED <<pc, lines, mres>>
    /\ MarshalFrame

\* the (conditional) json.Marshal of one field and the append of its fragment
MarshalField ==
    /\ MarshalAt("marshal")
    /\ LET st == MarshalCode[mi]
           v  == strct.fields[st.field]
           r  == JsonMarshal(v)
       IN IF ~MarshalCondHolds(st.arg, v, DeclaredType(s, st.field))
          THEN /\ mi' = mi + 1
               /\ UNCHANGED <<pc, lines, mres>>
          ELSE IF ~r.ok
               THEN /\ mres' = Failed(JsonError)
                    /\ pc' = "marshalled"
                    /\ UNCHANGED <<mi, lines>>
               ELSE /\ lines' = Append(lines, [key |-> st.key, val |-> r.j])
                    /\ mi' = mi + 1
                    /\ UNCHANGED <<pc, mres>>
    /\ MarshalFrame

\* for k, v := range strct.AdditionalProperties { ... append ... }
MarshalAdditional ==
    /\ MarshalAt("marshalAdditional")
    /\ \E perm \in Perms(DOMAIN strct.AdditionalProperties) :
          lines' = lines \o [i \in 1..Len(perm) |->
                      [key |-> perm[i],
                       val |-> JsonMarshal(strct.AdditionalProperties[perm[i]]).j]]
    /\ mi' = mi + 1
    /\ UNCHANGED <<pc, mres>>
    /\ MarshalFrame

\* return []byte("{" + strings.Join(lines, ", ") + "}"), nil
MarshalReturn ==
    /\ MarshalAt("returnJoin")
    /\ mres' = Doc(lines)
    /\ pc' = "marshalled"
    /\ UNCHANGED <<mi, lines>>
    /\ MarshalFrame

---------------------------------------------------------------------------
(* The emitted UnmarshalJSON *)

UnmarshalCode == emitUnmarshalCode(s).code

OpsOf(code, ops) == SelectSeq(code, LAMBDA st : st.op \in ops)

\* the body of the switch: case clauses and the statements between them
SwitchItems(code) == OpsOf(code, {"case", "setReceived"})

DefaultOf(code) == OpsOf(code, {"defaultContinue", "defaultAdditional"})

\* Whether the emitted routine is a Go function at all: every statement of a
\* switch belongs to a clause, the integer-parsing case uses its short variable
\* newVal outside the if that declares it (and passes a RawMessage where a
\* string is expected), and "-Received" is no identifier.
WellFormed(code) ==
    /\ \A i \in 1..Len(code) : ~(code[i].op = "case" /\ code[i].arg = "parseInt")
    /\ LET sw == SwitchItems(code) IN sw # <<>> => sw[1].op = "case"
    /\ \A i \in 1..Len(code) : code[i].op = "declReceived" => code[i].key # "-"

\* index of the case clause of the switch that key k selects, 0 if none
CaseOf(sw, k) ==
    IF \E i \in 1..Len(sw) : sw[i].op = "case" /\ sw[i].key = k
    THEN CHOOSE i \in 1..Len(sw) : sw[i].op = "case" /\ sw[i].key = k
    ELSE 0

RECURSIVE ClauseEnd(_, _)
\* the last statement of the clause that holds statement i
ClauseEnd(sw, i) ==
    IF i < Len(sw) /\ sw[i + 1].op # "case" THEN ClauseEnd(sw, i + 1) ELSE i

\* the flags the clause starting at i sets
FlagsSet(sw, i) == {sw[j].key : j \in (i + 1)..ClauseEnd(sw, i)}

\* the store of a case clause: [ok, v]
CaseStore(st, raw, old) ==
    CASE st.arg = "direct" -> JsonUnmarshal(raw, DeclaredType(s, st.field), old)
      [] st.arg = "itoa"   ->
            LET r == JsonUnmarshal(raw, TInt, GoInt(0))
            IN IF r.ok THEN [ok |-> TRUE, v |-> GoString(Itoa(r.v.n))]
               ELSE [ok |-> FALSE, v |-> old]

\* json.Unmarshal(b, &jsonMap): a later duplicate of a key wins
ParseObject(pairs) ==
    [k \in {pairs[i].key : i \in 1..Len(pairs)} |->
        pairs[CHOOSE i \in 1..Len(pairs) :
                 /\ pairs[i].key = k
                 /\ \A j \in (i + 1)..Len(pairs) : pairs[j].key # k].val]

UnmarshalFrame == UNCHANGED <<g, s>> /\ UNCHANGED genVars /\ UNCHANGED marVars

\* the flag declarations and the generic parse
UnmarshalStart ==
    /\ pc = "unmarshal"
    /\ IF ~WellFormed(UnmarshalCode)
       THEN /\ ures' = NoBuild
            /\ pc' = "unmarshalled"
            /\ UNCHANGED <<jsonMap, todo, received>>
       ELSE /\ received' = [k \in {st.key : st \in Range(OpsOf(UnmarshalCode, {"declReceived"}))}
                               |-> FALSE]
            /\ IF ~input.object
               THEN /\ ures' = Failed(JsonError)
                    /\ pc' = "unmarshalled"
                    /\ UNCHANGED <<jsonMap, todo>>
               ELSE /\ jsonMap' = ParseObject(input.pairs)
                    /\ todo' = DOMAIN jsonMap'
                    /\ pc' = "dispatch"
                    /\ UNCHANGED ures
    /\ UNCHANGED <<target, input, cur, view>>
    /\ UnmarshalFrame

\* one iteration of the range loop whose key selects a case clause
UnmarshalKnown ==
    /\ pc = "dispatch"
    /\ \E k \in todo :
         LET sw == SwitchItems(UnmarshalCode)
             c  == CaseOf(sw, k)
             r  == CaseStore(sw[c], jsonMap[k], target.fields[sw[c].field])
         IN /\ c # 0
            /\ cur' = k
            /\ todo' = todo \ {k}
            /\ IF ~r.ok
               THEN /\ ures' = Failed(JsonError)
                    /\ pc' = "unmarshalled"
                    /\ UNCHANGED <<target, received>>
               ELSE /\ target' = [target EXCEPT !.fields[sw[c].field] = r.v]
                    /\ received' = [f \in DOMAIN received |->
                                      received[f] \/ f \in FlagsSet(sw, c)]
                    /\ UNCHANGED <<pc, ures>>
    /\ UNCHANGED <<input, jsonMap, view>>
    /\ UnmarshalFrame

\* one iteration of the range loop whose key selects no case clause
UnmarshalUnknown ==
    /\ pc = "dispatch"
    /\ \E k \in todo :
         LET d == DefaultOf(UnmarshalCode)
             r == JsonUnmarshal(jsonMap[k], s.AdditionalType, ZeroOf(s.AdditionalType))
         IN /\ CaseOf(SwitchItems(UnmarshalCode), k) = 0
            /\ cur' = k
            /\ todo' = todo \ {k}
            /\ IF d = <<>> \/ d[1].op = "defaultContinue"
               THEN UNCHANGED <<target, pc, ures>>
               ELSE IF ~r.ok
                    THEN /\ ures' = Failed(JsonError)
                         /\ pc' = "unmarshalled"
                         /\ UNCHANGED target
                    ELSE /\ target' =
                              [target EXCEPT
                                 !.apNil = FALSE,
                                 !.AdditionalProperties =
                                     [x \in DOMAIN @ \cup {k} |-> IF x = k THEN r.v ELSE @[x]]]
                         /\ UNCHANGED <<pc, ures>>
    /\ UNCHANGED <<input, jsonMap, received, view>>
    /\ UnmarshalFrame

\* the checks after the loop, in the order they were emitted
UnmarshalFinish ==
    /\ pc = "dispatch"
    /\ todo = {}
    /\ LET checks == OpsOf(UnmarshalCode, {"checkReceived"})
           missing == {i \in 1..Len(checks) : ~received[checks[i].key]}
       IN IF missing = {}
          THEN ures' = Succeeded
          ELSE ures' = Failed(NotPresent(
                   checks[CHOOSE i \in missing : \A j \in missing : i <= j].key))
    /\ pc' = "unmarshalled"
    /\ UNCHANGED <<target, input, jsonMap, todo, cur, received, view>>
    /\ UnmarshalFrame

---------------------------------------------------------------------------
(* The emitted ToMap *)

\* m[<MarshalName>] = strct.<Name>, statement by statement
ToMap(code, inst) ==
    [k \in {code[i].key : i \in 1..Len(code)} |->
        inst.fields[code[CHOOSE i \in 1..Len(code) :
                            /\ code[i].key = k
                            /\ \A j \in (i + 1)..Len(code) : code[j].key # k].field]]

ToMapRun ==
    /\ pc = "unmarshalled"
    /\ view' = ToMap(emitToMapCode(s), target)
    /\ pc' = "viewed"
    /\ UNCHANGED <<target, input, jsonMap, todo, cur, received, ures>>
    /\ UnmarshalFrame


---------------------------------------------------------------------------
(* Running the emitted routines *)

Extra == <<"z1", "z2", "z3">>

\* keys no field of a record declares
ExtraKeys == {Extra[i] : i \in 1..MaxExtra}

Instance(fields, ap) ==
    [fields |-> fields, AdditionalProperties |-> ap, apNil |-> ap = <<>>]

\* new(S): every field at its zero value, no side mapping
Fresh(st) == Instance([n \in DOMAIN st.Fields |-> ZeroOf(DeclaredType(st, n))], <<>>)

\* side mappings an instance may hold
SideMaps(st) ==
    IF st.AdditionalType \in {NoType, TFalse} THEN {<<>>}
    ELSE UNION {[K -> ValuesOf(st.AdditionalType) \ {ZeroOf(st.AdditionalType)}] :
                  K \in SUBSET ExtraKeys}

\* the instances of a record
Instances(st) ==
    {Instance(fs, ap) :
        fs \in {f \in [DOMAIN st.Fields -> UNION {ValuesOf(DeclaredType(st, n)) : n \in DOMAIN st.Fields}] :
                  \A n \in DOMAIN st.Fields : f[n] \in ValuesOf(DeclaredType(st, n))},
        ap \in SideMaps(st)}

InitMarshal ==
    /\ g = NoGen /\ out = <<>> /\ codeBuf = <<>> /\ imports = {} /\ prev = <<>> /\ runs = 0
    /\ s \in RunStructs
    /\ strct \in Instances(s)
    /\ pc = "marshal" /\ mi = 1 /\ lines = <<>> /\ mres = NoResult
    /\ target = NoInstance /\ input = NoInput /\ jsonMap = <<>>
    /\ todo = {} /\ cur = "" /\ received = <<>> /\ ures = NoResult /\ view = <<>>

\* the caller hands the document MarshalJSON returned to UnmarshalJSON of a
\* new instance
RoundTrip ==
    /\ pc = "marshalled"
    /\ mres.kind = "doc"
    /\ input' = [object |-> TRUE, pairs |-> mres.doc]
    /\ target' = Fresh(s)
    /\ pc' = "unmarshal"
    /\ UNCHANGED <<jsonMap, todo, cur, received, ures, view>>
    /\ UnmarshalFrame

NextUnmarshal ==
    \/ UnmarshalStart
    \/ UnmarshalKnown
    \/ UnmarshalUnknown
    \/ UnmarshalFinish
    \/ ToMapRun

NextMarshal ==
    \/ MarshalRequiredGuard
    \/ MarshalRemark
    \/ MarshalField
    \/ MarshalAdditional
    \/ MarshalReturn
    \/ RoundTrip
    \/ NextUnmarshal

SpecMarshal == InitMarshal /\ [][NextMarshal]_vars

\* raw values of the kind a field's case decodes
GoodRaw(f) ==
    CASE f.UnmarshalType = TString -> {JStr(Itoa(n)) : n \in 1..MaxInt}
      [] f.UnmarshalType = TInt    -> {JNum(n) : n \in 1..MaxInt}
      [] f.UnmarshalType = TFloat  -> {JNum(n) : n \in 1..MaxInt}
      [] OTHER                     -> {JObj(n) : n \in 1..MaxInt}

\* a raw value of another kind
BadRaw(f) == IF f.UnmarshalType = TString THEN {JNum(1)} ELSE {JStr("x")}

ExtraRaw == {JNull, JStr("x")} \cup {JNum(n) : n \in 1..MaxInt}

\* the raw values the input may hold under key k
RawFor(st, k) ==
    IF k \in ExtraKeys THEN ExtraRaw
    ELSE UNION {GoodRaw(st.Fields[n]) \cup BadRaw(st.Fields[n]) :
                  n \in {m \in DOMAIN st.Fields : st.Fields[m].UnmarshalName = k}}

InputKeys(st) == {st.Fields[n].UnmarshalName : n \in DOMAIN st.Fields} \cup ExtraKeys

\* the documents UnmarshalJSON is called on: malformed bytes, or an object
\* over declared and undeclared keys
Inputs(st) ==
    {NoInput} \cup
    UNION {{[object |-> TRUE,
             pairs |-> [i \in 1..Len(SetToSeq(K)) |->
                          [key |-> SetToSeq(K)[i], val |-> m[SetToSeq(K)[i]]]]] :
              m \in {f \in [K -> UNION {RawFor(st, k) : k \in K}] :
                       \A k \in K : f[k] \in RawFor(st, k)}} :
           K \in SUBSET InputKeys(st)}

\* the receivers UnmarshalJSON is called on
Receivers(st) ==
    {Fresh(st)} \cup
    (IF st.AdditionalType \in {NoType, TFalse} THEN {}
     ELSE {Instance(Fresh(st).fields, [k \in {"old"} |-> GoInt(1)])})

InitUnmarshal ==
    /\ g = NoGen /\ out = <<>> /\ codeBuf = <<>> /\ imports = {} /\ prev = <<>> /\ runs = 0
    /\ s \in RunStructs
    /\ strct = NoInstance /\ mi = 0 /\ lines = <<>> /\ mres = NoResult
    /\ target \in Receivers(s)
    /\ input \in Inputs(s)
    /\ pc = "unmarshal"
    /\ jsonMap = <<>> /\ todo = {} /\ cur = "" /\ received = <<>>
    /\ ures = NoResult /\ view = <<>>

SpecUnmarshal == InitUnmarshal /\ [][NextUnmarshal]_vars


---------------------------------------------------------------------------
(* Facilities the emitted text refers to *)

\* the packages one emitted statement names
Uses(st) ==
    CASE st.op = "requiredGuard"     -> {"errors"}
      [] st.op = "marshal"           ->
            {"encoding/json", "fmt"}
              \cup (IF st.arg = "reflectIsZero" THEN {"reflect"} ELSE {})
      [] st.op = "marshalAdditional" -> {"encoding/json", "fmt"}
      [] st.op = "returnJoin"        -> {"strings"}
      [] st.op = "parse"             -> {"encoding/json"}
      [] st.op = "case"              ->
            {"encoding/json"}
              \cup (IF st.arg \in {"parseInt", "itoa"} THEN {"strconv"} ELSE {})
      [] st.op = "defaultAdditional" -> {"encoding/json"}
      [] st.op = "checkReceived"     -> {"errors"}
      [] OTHER                       -> {}

---------------------------------------------------------------------------
(* Properties of Output *)

Written == pc = "written"

\* the tokens of the stream of one of the kinds ts, in stream order
Toks(stream, ts) == SelectSeq(stream, LAMBDA tk : tk.t \in ts)

NamesOf(stream, ts) == [i \in 1..Len(Toks(stream, ts)) |-> Toks(stream, ts)[i].name]

StrictlySorted(names) ==
    \A i, j \in 1..Len(names) : i < j => StringLess(names[i], names[j])

\* the section of the stream a token belongs to
Section(tk) ==
    CASE tk.t = "marker" -> 1
      [] tk.t = "package" -> 2
      [] tk.t \in {"importOpen", "import", "importClose"} -> 3
      [] tk.t = "alias" -> 4
      [] tk.t \in {"structDoc", "structOpen", "fieldDoc", "field", "structClose"} -> 5
      [] tk.t \in {"MarshalJSON", "UnmarshalJSON", "ToMap"} -> 6

\* the field declarations between the opening and the closing of record n
FieldsDeclared(stream, n) ==
    LET open  == CHOOSE i \in 1..Len(stream) : stream[i].t = "structOpen" /\ stream[i].name = n
        close == CHOOSE i \in 1..Len(stream) : stream[i].t = "structClose" /\ stream[i].name = n
    IN NamesOf(SubSeq(stream, open, close), {"field"})

GeneratingRecords == {n \in DOMAIN g.Structs : g.Structs[n].GenerateCode}

\* C9: the stream holds, in this order, the marker and the package clause, the
\* import block (there exactly when the facility set is not empty), the alias
\* declarations sorted by name, one declaration of every record sorted by name
\* with its fields sorted by name, and after all declarations the three
\* routines of exactly the code-generating records, in sorted record order.
C9_OutputOrder ==
    Written =>
      /\ out[1].t = "marker" /\ out[2].t = "package"
      /\ \A i, j \in 1..Len(out) : i < j => Section(out[i]) <= Section(out[j])
      /\ Len(Toks(out, {"marker"})) = 1 /\ Len(Toks(out, {"package"})) = 1
      /\ (Toks(out, {"importOpen"}) # <<>>) <=> (imports # {})
      /\ StrictlySorted(NamesOf(out, {"alias"}))
      /\ Range(NamesOf(out, {"alias"})) = DOMAIN g.Aliases
      /\ StrictlySorted(NamesOf(out, {"structOpen"}))
      /\ Range(NamesOf(out, {"structOpen"})) = DOMAIN g.Structs
      /\ NamesOf(out, {"structOpen"}) = NamesOf(out, {"structClose"})
      /\ \A n \in DOMAIN g.Structs :
            /\ StrictlySorted(FieldsDeclared(out, n))
            /\ Range(FieldsDeclared(out, n)) = DOMAIN g.Structs[n].Fields
      /\ StrictlySorted(NamesOf(out, {"MarshalJSON"}))
      /\ Range(NamesOf(out, {"MarshalJSON"})) = GeneratingRecords
      /\ LET r == Toks(out, {"MarshalJSON", "UnmarshalJSON", "ToMap"})
         IN /\ Len(r) = 3 * Cardinality(GeneratingRecords)
            /\ \A i \in 1..Len(r) :
                  /\ r[i].t = <<"MarshalJSON", "UnmarshalJSON", "ToMap">>[((i - 1) % 3) + 1]
                  /\ r[i].name = r[i - ((i - 1) % 3)].name

\* a model with two records, one of them declaration-only, and two aliases
C9_Witness ==
    /\ Written
    /\ Cardinality(DOMAIN g.Structs) = 2
    /\ Cardinality(GeneratingRecords) = 1
    /\ Cardinality(DOMAIN g.Aliases) = 2
    /\ \E n \in DOMAIN g.Structs : Cardinality(DOMAIN g.Structs[n].Fields) = 2
    /\ imports # {}
    /\ Len(Toks(out, {"ToMap"})) = 1

\* the facilities the import block declares
Declared(stream) == Range(NamesOf(stream, {"import"}))

\* C10: every facility an emitted routine refers to is in the facility set
\* the emitters collected and is declared exactly once in the import block.
C10_FacilitiesComplete ==
    Written =>
      /\ \A i \in 1..Len(out) : \A j \in 1..Len(out[i].body) :
            Uses(out[i].body[j]) \subseteq imports \cap Declared(out)
      /\ Len(Toks(out, {"import"})) = Cardinality(Declared(out))

\* C1: a second run of Output on the unchanged model writes the stream the
\* first run wrote.
C1_Deterministic == (Written /\ runs >= 2) => out = prev


---------------------------------------------------------------------------
(* Properties of the emitted MarshalJSON *)

Marshalled == mres.kind # None

FieldNames == DOMAIN s.Fields

\* the keys of the fragments of a document
KeysOf(doc) == {doc[i].key : i \in 1..Len(doc)}

\* field n is required, pointer-like and not excluded from serialization
RequiredPointer(n) ==
    /\ s.Fields[n].Required
    /\ Head(s.Fields[n].MarshalType) = "*"
    /\ s.Fields[n].MarshalName # "-"

Absent(n) == strct.fields[n].k = "nil"

\* json.Marshal has no encoding for the value of field n (a NaN)
Unserializable(n) == strct.fields[n].str = "NaN" /\ s.Fields[n].MarshalName # "-"

GuardsOf(n) ==
    {i \in 1..Len(MarshalCode) : MarshalCode[i].op = "requiredGuard" /\ MarshalCode[i].field = n}

FragmentsOf(n) ==
    {i \in 1..Len(MarshalCode) : MarshalCode[i].op = "marshal" /\ MarshalCode[i].field = n}

\* C5 as stated: whenever a required, pointer-like, not excluded field is nil,
\* MarshalJSON returns no document but an error naming that field, whatever
\* its OmitEmpty flag; a required field of another type gets no guard.
C5_RequiredOnMarshal ==
    Marshalled =>
      \A n \in FieldNames :
         /\ (RequiredPointer(n) /\ Absent(n)) =>
               mres = Failed(RequiredField(s.Fields[n].MarshalName))
         /\ (s.Fields[n].Required /\ Head(s.Fields[n].MarshalType) # "*") =>
               GuardsOf(n) = {}

\* C5 as amended: MarshalJSON returns no document; the error names the field
\* unless a field before it in sorted order failed first, by its own guard or
\* by its serialization, and then the error is that field's.  The guard stands
\* before the field's omit-empty conditional.
C5_RequiredOnMarshalFirst ==
    Marshalled =>
      \A n \in FieldNames :
         /\ (RequiredPointer(n) /\ Absent(n)) =>
               /\ mres.kind = "err" /\ mres.doc = <<>>
               /\ \/ mres.err = RequiredField(s.Fields[n].MarshalName)
                  \/ \E m \in FieldNames :
                        /\ StringLess(m, n)
                        /\ \/ RequiredPointer(m) /\ Absent(m)
                                /\ mres.err = RequiredField(s.Fields[m].MarshalName)
                           \/ Unserializable(m) /\ mres.err = JsonError
               /\ (\A m \in FieldNames :
                      StringLess(m, n) => ~(RequiredPointer(m) /\ Absent(m)) /\ ~Unserializable(m))
                    => mres.err = RequiredField(s.Fields[n].MarshalName)
         /\ RequiredPointer(n) =>
               \A i \in GuardsOf(n), j \in FragmentsOf(n) : i < j
         /\ (RequiredPointer(n) /\ s.Fields[n].OmitEmpty) => GuardsOf(n) # {}
         /\ (s.Fields[n].Required /\ Head(s.Fields[n].MarshalType) # "*") =>
               GuardsOf(n) = {}

\* a nil required pointer field with OmitEmpty set, named by the error
C5_Witness ==
    /\ Marshalled
    /\ \E n \in FieldNames :
          /\ RequiredPointer(n) /\ Absent(n) /\ s.Fields[n].OmitEmpty
          /\ mres = Failed(RequiredField(s.Fields[n].MarshalName))
          /\ \E m \in FieldNames : StringLess(m, n) /\ s.Fields[m].Required

\* C2: a field with OmitEmpty set that is not excluded has its key in the
\* document exactly when it does not hold the zero value of its type.
C2_OmitEmpty ==
    mres.kind = "doc" =>
      \A n \in FieldNames :
         (s.Fields[n].OmitEmpty /\ s.Fields[n].MarshalName # "-") =>
            (s.Fields[n].MarshalName \in KeysOf(mres.doc)
               <=> strct.fields[n] # ZeroOf(s.Fields[n].MarshalType))

\* the document went through an UnmarshalJSON that is a Go function
RoundTripped == pc \in {"unmarshalled", "viewed"} /\ mres.kind = "doc" /\ ures.kind # "build"

\* C3: UnmarshalJSON of the document MarshalJSON returned succeeds and leaves
\* in every field excluded in neither direction a value equal to the
\* original's.
C3_RoundTrip ==
    RoundTripped =>
      /\ ures = Succeeded
      /\ \A n \in FieldNames :
            (s.Fields[n].MarshalName # "-" /\ s.Fields[n].UnmarshalName # "-") =>
               target.fields[n] = strct.fields[n]


---------------------------------------------------------------------------
(* Properties of the emitted UnmarshalJSON and ToMap *)

\* UnmarshalJSON, a Go function, has returned
Unmarshalled == pc \in {"unmarshalled", "viewed"} /\ ures.kind # "build"

\* the keys the range loop has visited
Dispatched == DOMAIN jsonMap \ todo

\* the fields whose external name on read is k
FieldsReadAs(k) == {n \in FieldNames : s.Fields[n].UnmarshalName = k}

Undeclared(k) == FieldsReadAs(k) = {}

RequiredFields == {n \in FieldNames : s.Fields[n].Required}

\* the raw value is of the kind the type decodes (a null decodes into anything)
Decodes(raw, ty) ==
    \/ raw.k = "jnull"
    \/ raw.k = "jstr" /\ ty = TString
    \/ raw.k = "jnum" /\ ty \in {TInt, TFloat}
    \/ raw.k = "jobj" /\ ty \in {TObj, TPtrObj}

AllowsAdditional == s.AdditionalType # NoType /\ s.AdditionalType # TFalse

\* every value of the input is of the kind its key is read as
AllDecode ==
    /\ input.object
    /\ \A i \in 1..Len(input.pairs) :
          /\ \A n \in FieldsReadAs(input.pairs[i].key) :
                Decodes(input.pairs[i].val, s.Fields[n].UnmarshalType)
          /\ (Undeclared(input.pairs[i].key) /\ AllowsAdditional) =>
                Decodes(input.pairs[i].val, s.AdditionalType)

InputKeysOf == {input.pairs[i].key : i \in 1..Len(input.pairs)}

MissingRequired == {n \in RequiredFields : s.Fields[n].UnmarshalName \notin InputKeysOf}

\* C4: on a parseable input whose values all decode, UnmarshalJSON succeeds
\* when the key of every required field is there, and otherwise fails with an
\* error naming a required field whose key is missing; the flag of a required
\* field is true only once the loop has visited that field's own key.
C4_RequiredOnUnmarshal ==
    /\ (Unmarshalled /\ AllDecode) =>
          IF MissingRequired = {} THEN ures = Succeeded
          ELSE \E n \in MissingRequired : ures = Failed(NotPresent(s.Fields[n].UnmarshalName))
    /\ \A k \in DOMAIN received : received[k] => k \in Dispatched

\* the fields read in one kind and held in another
CoercedFields == {n \in FieldNames : s.Fields[n].MarshalType # s.Fields[n].UnmarshalType}

TextInteger(n) ==
    \/ s.Fields[n].UnmarshalType = TString /\ s.Fields[n].MarshalType = TInt
    \/ s.Fields[n].UnmarshalType = TInt /\ s.Fields[n].MarshalType = TString

CasesOf(n) ==
    {i \in 1..Len(UnmarshalCode) : UnmarshalCode[i].op = "case" /\ UnmarshalCode[i].field = n}

\* the value the coercion stores for a raw value of field n's read kind: the
\* integer a decimal text denotes, or the decimal text of an integer
Coerced(n, raw) ==
    IF s.Fields[n].UnmarshalType = TString
    THEN GoInt(CHOOSE d \in 0..9 : Digits[d + 1] = raw.str)
    ELSE GoString(Digits[raw.n + 1])

\* C6: a field read as text and held as integer, or read as integer and held
\* as text, has a case for its external name that builds, accepts a value of
\* the read kind and stores the coerced value; a field of any other differing
\* pair has no case.
C6_Coercion ==
    \A n \in CoercedFields :
       IF TextInteger(n)
       THEN /\ s.Fields[n].UnmarshalName # "-" =>
                  \E i \in CasesOf(n) : UnmarshalCode[i].key = s.Fields[n].UnmarshalName
            /\ (\A m \in FieldNames : m = n) => ures.kind # "build"
            /\ (/\ s.Fields[n].UnmarshalName \in Dispatched
                /\ jsonMap[s.Fields[n].UnmarshalName].k
                     = (IF s.Fields[n].UnmarshalType = TString THEN "jstr" ELSE "jnum")
                /\ ures.kind \in {None, "ok"}) =>
                  target.fields[n] = Coerced(n, jsonMap[s.Fields[n].UnmarshalName])
       ELSE CasesOf(n) = {}

\* the value of AdditionalType a raw value decodes to
AdditionalValue(raw) == IF raw.k = "jnull" THEN GoInt(0) ELSE GoInt(raw.n)

\* one iteration of the loop on an undeclared key
VisitsUndeclared ==
    /\ pc = "dispatch"
    /\ todo' # todo
    /\ Undeclared(cur')

\* the step stores cur' in the side mapping and keeps everything else
StoresAdditional ==
    /\ target'.AdditionalProperties =
          [x \in DOMAIN target.AdditionalProperties \cup {cur'} |->
              IF x = cur' THEN AdditionalValue(jsonMap[cur'])
              ELSE target.AdditionalProperties[x]]
    /\ ~target'.apNil
    /\ target'.fields = target.fields
    /\ received' = received
    /\ ures' = ures /\ pc' = pc

\* the step ends the routine with the decoder's failure
AbortsOnDecode ==
    /\ ures' = Failed(JsonError)
    /\ pc' = "unmarshalled"
    /\ target' = target

\* the map view holds the declared fields' values under their external names
ViewOfFields ==
    /\ DOMAIN view = {s.Fields[n].MarshalName : n \in FieldNames}
    /\ \A k \in DOMAIN view :
          \E n \in FieldNames : s.Fields[n].MarshalName = k /\ view[k] = target.fields[n]

\* C7: in a record that allows additional properties, the iteration on an
\* undeclared key stores the value, decoded as AdditionalType, under that key
\* in the side mapping (made on first use, its other entries kept), or ends the
\* routine with the decode failure; ToMap holds declared fields only.
C7_AdditionalAllowed ==
    /\ [][(VisitsUndeclared /\ AllowsAdditional) =>
            IF Decodes(jsonMap[cur'], s.AdditionalType)
            THEN StoresAdditional ELSE AbortsOnDecode]_vars
    /\ [](pc = "viewed" => ViewOfFields)

\* an undeclared key was stored beside an older entry, and the view taken
C7_Witness ==
    /\ pc = "viewed"
    /\ AllowsAdditional
    /\ ures = Succeeded
    /\ \E k \in Dispatched :
          /\ Undeclared(k)
          /\ k \in DOMAIN target.AdditionalProperties
          /\ k \notin DOMAIN view
          /\ "old" \in DOMAIN target.AdditionalProperties
    /\ \E k \in Dispatched : ~Undeclared(k)

KeysOfRequired == {s.Fields[n].UnmarshalName : n \in RequiredFields}

\* C8: in a record that disallows additional properties, the iteration on an
\* undeclared key changes no field, no flag and not the side mapping and never
\* fails; an input holding the keys of all required fields, with values that
\* decode, is accepted.
C8_AdditionalDisallowed ==
    /\ [][(VisitsUndeclared /\ s.AdditionalType = TFalse) =>
            (target' = target /\ received' = received /\ ures' = ures /\ pc' = pc)]_vars
    /\ []((/\ Unmarshalled
           /\ s.AdditionalType = TFalse
           /\ AllDecode
           /\ KeysOfRequired \subseteq InputKeysOf
           /\ \E k \in InputKeysOf : Undeclared(k)) => ures = Succeeded)

=============================================================================
